---- MODULE Spec2Model ----
(***************************************************************************)
(* A model of firesim's frame loop: the winit application handler (App),   *)
(* the GPU state object (State) with its inline ping-pong of the velocity  *)
(* and density textures, the uniform Parameter Block (ComputeParams), and  *)
(* the stand-alone PingPong double buffer.                                 *)
(*                                                                         *)
(* Floats that only ever hold 0.0 or 1.0 are the integers 0 and 1.  Time   *)
(* is counted in whole seconds.                                            *)
(* Lengths in world space are in thousandths of a unit.                    *)
(***************************************************************************)
EXTENDS Integers, Sequences, FiniteSets, TLC

VARIABLES
    state,              \* App.state: the State object (app.rs:12)
    last_render_time,   \* App.last_render_time: Option<Instant> (app.rs:13)
    clock,              \* the monotonic clock read by Instant::now()
    exiting,            \* event_loop.exit() has been called
    steps,              \* ghost: number of direction flips State has made
    since_frame,        \* ghost: Space was pressed since the last RedrawRequested
    since_step,         \* ghost: Space was pressed since the last submitted frame
    hazard,             \* ghost: textures written and not read since, and those
                        \*        written again before being read
    last_dt,            \* ghost: the Duration the last update() was called with
    content,            \* ghost: the simulation textures that hold content
                        \*        (uploaded at startup or written by a dispatch)
    redraw_requested,   \* the window has a redraw request pending
    frame_parity,       \* ghost: the number of RedrawRequested handled, mod 2
    first_event_time,   \* ghost: the time the first window event was handled
    dt_sum,             \* ghost: the sum of the dts passed to update()
    pp,                 \* a PingPong (ping_pong.rs:3)
    swaps,              \* ghost: number of swap() calls made on pp
    got,                \* ghost: what the last accessor called on pp returned
    made,               \* ghost: the two textures pp was built from, in order
    cs,                 \* a ComputeStep::dispatch call: its arguments and what
                        \* it recorded (compute_step.rs:23)
    up                  \* a write_velocity_3d_rgba16f_tornado call: its loop
                        \* position, its data array and its upload
                        \* (texture.rs:103)

vars == <<state, last_render_time, clock, exiting, steps,
          since_frame, since_step, hazard, last_dt, content, redraw_requested,
          frame_parity, first_event_time, dt_sum, pp, swaps, got, made, cs, up>>

appVars == <<state, last_render_time, clock, exiting, steps,
             since_frame, since_step, hazard, last_dt, content,
             redraw_requested, frame_parity, first_event_time, dt_sum>>

ppVars == <<pp, swaps, got, made>>

csVars == <<cs>>

upVars == <<up>>

(***************************************************************************)
(* Bounds of the model.                                                    *)
(***************************************************************************)
MaxSteps == 3

MaxTime == 2

MaxAux == 2

MaxDim == 3

MaxSwaps == 4

NumTextures == 3

(***************************************************************************)
(* config.rs                                                               *)
(***************************************************************************)
GRID_DIMENSION_LENGTH == 64

GRID_VOXEL_SIDE_LENGTH == 25

THREADS_PER_DIMENSION == 4

\* Option<T>: None is the empty sequence, Some(x) the one-element sequence.
None == <<>>

Some(x) == <<x>>

\* Window sizes the windowing system may report (width, height).
Sizes == {<<0, 600>>, <<800, 0>>, <<800, 600>>, <<1024, 768>>}

\* The size of the window when State::new runs.
InitialSizes == {<<800, 600>>}

\* Results of Surface::get_current_texture.
AcquireResults == {"Ok", "Lost", "Outdated", "Timeout", "OutOfMemory"}

KeyCodes == {"Escape", "Space", "KeyW", "KeyQ"}

ElementStates == {"Pressed", "Released"}

(***************************************************************************)
(* The four simulation textures and the bind groups State::new builds.     *)
(* A bind group is the sequence of its entries: entry i+1 is binding i.    *)
(***************************************************************************)
velocity_vector_field_texture_a == [field |-> "velocity", side |-> "a"]

velocity_vector_field_texture_b == [field |-> "velocity", side |-> "b"]

density_scalar_field_texture_a == [field |-> "density", side |-> "a"]

density_scalar_field_texture_b == [field |-> "density", side |-> "b"]

Textures == {velocity_vector_field_texture_a, velocity_vector_field_texture_b,
             density_scalar_field_texture_a, density_scalar_field_texture_b}

TextureView(t) == [kind |-> "view", of |-> t]

SamplerOf(t) == [kind |-> "sampler", of |-> t]

compute_bind_group_layout == <<"read", "write", "read", "write", "sampler">>

compute_bind_group_a_to_b ==
    [label   |-> "compute_bind_group_a_to_b",
     layout  |-> compute_bind_group_layout,
     entries |-> <<TextureView(velocity_vector_field_texture_a),
                   TextureView(velocity_vector_field_texture_b),
                   TextureView(density_scalar_field_texture_a),
                   TextureView(density_scalar_field_texture_b),
                   SamplerOf(density_scalar_field_texture_a)>>]

\* Mutant: the b-to-a group still moves the density from A to B.
compute_bind_group_b_to_a_mixed ==
    [label   |-> "compute_bind_group_b_to_a",
     layout  |-> compute_bind_group_layout,
     entries |-> <<TextureView(velocity_vector_field_texture_b),
                   TextureView(velocity_vector_field_texture_a),
                   TextureView(density_scalar_field_texture_a),
                   TextureView(density_scalar_field_texture_b),
                   SamplerOf(density_scalar_field_texture_a)>>]

compute_bind_group_b_to_a ==
    [label   |-> "compute_bind_group_b_to_a",
     layout  |-> compute_bind_group_layout,
     entries |-> <<TextureView(velocity_vector_field_texture_b),
                   TextureView(velocity_vector_field_texture_a),
                   TextureView(density_scalar_field_texture_b),
                   TextureView(density_scalar_field_texture_a),
                   SamplerOf(density_scalar_field_texture_a)>>]

density_texture_bind_group_layout == <<"read", "sampler">>

density_texture_bind_group ==
    [label   |-> "density_texture_bind_group",
     layout  |-> density_texture_bind_group_layout,
     entries |-> <<TextureView(density_scalar_field_texture_a),
                   SamplerOf(density_scalar_field_texture_a)>>]

add_input_bind_group_layout == <<"read_write", "read_write">>

add_input_bind_group_a ==
    [label   |-> "add_input_bind_group_a",
     layout  |-> add_input_bind_group_layout,
     entries |-> <<TextureView(velocity_vector_field_texture_a),
                   TextureView(density_scalar_field_texture_a)>>]

add_input_bind_group_b ==
    [label   |-> "add_input_bind_group_b",
     layout  |-> add_input_bind_group_layout,
     entries |-> <<TextureView(velocity_vector_field_texture_b),
                   TextureView(density_scalar_field_texture_b)>>]

compute_params_bind_group ==
    [label   |-> "compute_params_bind_group",
     layout  |-> <<"uniform">>,
     entries |-> <<[kind |-> "buffer", of |-> "compute_params_buffer"]>>]

camera_bind_group ==
    [label   |-> "camera_bind_group",
     layout  |-> <<"uniform">>,
     entries |-> <<[kind |-> "buffer", of |-> "camera_buffer"]>>]

\* The textures a bind group lets a pass read, and those it lets it write.
GroupReads(g) ==
    {g.entries[i].of : i \in {j \in DOMAIN g.entries :
                                g.layout[j] \in {"read", "read_write"}}}

GroupWrites(g) ==
    {g.entries[i].of : i \in {j \in DOMAIN g.entries :
                                g.layout[j] \in {"write", "read_write"}}}

(***************************************************************************)
(* texture.rs: the simulation textures and their initial content.          *)
(***************************************************************************)
GRID_DIMENSIONS ==
    [width |-> GRID_DIMENSION_LENGTH, height |-> GRID_DIMENSION_LENGTH,
     depth_or_array_layers |-> GRID_DIMENSION_LENGTH]

\* The descriptor Texture::create_compute_texture creates the texture from.
create_compute_texture(format, label) ==
    [label |-> label, size |-> GRID_DIMENSIONS, dimension |-> "D3",
     format |-> format]

VECTOR_FIELD_CHANNEL_FORMAT == "Rgba16Float"

SCALAR_FIELD_CHANNEL_FORMAT == "Rgba16Float"

\* State::new, lines 258-283: the descriptor each texture was created from.
Created(t) ==
    CASE t = velocity_vector_field_texture_a ->
           create_compute_texture(VECTOR_FIELD_CHANNEL_FORMAT, "Velocity Field Texture")
      [] t = velocity_vector_field_texture_b ->
           create_compute_texture(VECTOR_FIELD_CHANNEL_FORMAT, "Velocity Field Texture")
      [] t = density_scalar_field_texture_a ->
           create_compute_texture(SCALAR_FIELD_CHANNEL_FORMAT, "Density Scalar Field Texture A")
      [] t = density_scalar_field_texture_b ->
           create_compute_texture(SCALAR_FIELD_CHANNEL_FORMAT, "Density Scalar Field Texture B")

\* queue.write_texture over the whole extent of t: t holds content.
write_texture(c, t) == c \cup {t}

\* write_velocity_3d_rgba16f_tornado(&queue) on t, as one step.
write_velocity_3d_rgba16f_tornado(c, t) == write_texture(c, t)

\* write_density_blob_rgba16f(&queue, center, radius, peak) on t: uploads
\* a value for every grid cell in one bulk copy.
write_density_blob_rgba16f(c, t) == write_texture(c, t)

\* State::new, lines 271 and 285: the textures given initial content.
StartupContent ==
    write_density_blob_rgba16f(
        write_velocity_3d_rgba16f_tornado({}, velocity_vector_field_texture_a),
        density_scalar_field_texture_a)

\* write_velocity_3d_rgba16f_tornado step by step.  The program calls it
\* with width = height = depth = GRID_DIMENSION_LENGTH; the loop is kept
\* general in the three extents.  A byte of data holds the list of the
\* stores made to it, each named by its voxel and channel, in place of the
\* half-float bits stored.
bytes_per_voxel == 8

voxel_count(width, height, depth) == width * height * depth

\* Mutant: the row stride of the index is taken from the height.
linear_index_by_height(x, y, z, width, height) ==
    x + height * (y + width * z)

\* let i = x + width * (y + height * z)
linear_index(x, y, z, width, height) ==
    x + width * (y + height * z)

Channels == <<"r", "g", "b", "a">>

\* data[base + 2c .. base + 2c + 2].copy_from_slice(..) for the four channels
store_voxel(data, base, x, y, z) ==
    [k \in DOMAIN data |->
        IF base + 1 <= k /\ k <= base + bytes_per_voxel
        THEN Append(data[k], <<x, y, z, Channels[((k - base - 1) \div 2) + 1]>>)
        ELSE data[k]]

\* vec![0u8; voxel_count * bytes_per_voxel], before any store
new_data(width, height, depth) ==
    [k \in 1..(voxel_count(width, height, depth) * bytes_per_voxel) |-> <<>>]

Upload_new(width, height, depth) ==
    [width |-> width, height |-> height, depth |-> depth,
     x |-> 0, y |-> 0, z |-> 0,
     data |-> new_data(width, height, depth),
     pc |-> "loop", upload |-> None]

NoUpload ==
    [width |-> 0, height |-> 0, depth |-> 0, x |-> 0, y |-> 0, z |-> 0,
     data |-> <<>>, pc |-> "idle", upload |-> None]

\* One pass through the body of the innermost loop (lines 131-157), then
\* the loop headers: the next (x, y, z), or the end of the loops.  A store
\* outside data panics.
loop_body(u) ==
    LET i == linear_index(u.x, u.y, u.z, u.width, u.height)
        base == i * bytes_per_voxel
    IN  IF base + bytes_per_voxel > Len(u.data)
        THEN [u EXCEPT !.pc = "panic"]
        ELSE LET stored == [u EXCEPT !.data = store_voxel(@, base, u.x, u.y, u.z)] IN
             IF u.x + 1 < u.width THEN [stored EXCEPT !.x = u.x + 1]
             ELSE IF u.y + 1 < u.height THEN [stored EXCEPT !.x = 0, !.y = u.y + 1]
             ELSE IF u.z + 1 < u.depth
                  THEN [stored EXCEPT !.x = 0, !.y = 0, !.z = u.z + 1]
             ELSE [stored EXCEPT !.pc = "upload"]

\* queue.write_texture(.., &data, layout, extent), lines 162-184
upload_data(u) ==
    [u EXCEPT !.pc = "done",
              !.upload = Some([offset |-> 0,
                               bytes_per_row |-> u.width * 8,
                               rows_per_image |-> u.height,
                               extent |-> [width |-> u.width, height |-> u.height,
                                           depth_or_array_layers |-> u.depth],
                               size |-> Len(u.data)])]

(***************************************************************************)
(* compute_params.rs                                                       *)
(***************************************************************************)
\* Duration::as_secs_f32 of a whole number of seconds: the seconds as an
\* f32, that is rounded to a 24-bit significand (ties to even).  The result
\* is again counted in seconds.
RECURSIVE Ulp(_, _)
Ulp(d, u) == IF d < 16777216 * u THEN u ELSE Ulp(d, 2 * u)

\* `n as f32` of an unsigned integer: rounded to a 24-bit significand.
as_f32(n) ==
    LET u == Ulp(n, 1)
        q == n \div u
        r == n % u
    IN  IF 2 * r > u \/ (2 * r = u /\ q % 2 = 1) THEN (q + 1) * u ELSE q * u

as_secs_f32(d) ==
    LET u == Ulp(d, 1)
        q == d \div u
        r == d % u
    IN  IF 2 * r > u \/ (2 * r = u /\ q % 2 = 1) THEN (q + 1) * u ELSE q * u

ComputeParams_new(box_min, box_max, config) ==
    [dt      |-> as_secs_f32(0),
     width   |-> GRID_DIMENSION_LENGTH,
     height  |-> GRID_DIMENSION_LENGTH,
     depth   |-> GRID_DIMENSION_LENGTH,
     inject_sources_strength |-> 0,
     box_min |-> box_min,
     box_max |-> box_max,
     viewport |-> <<as_f32(config.width), as_f32(config.height)>>]

update_dt(p, dt) == [p EXCEPT !.dt = as_secs_f32(dt)]

\* Mutant: the new size is stored over the grid extents as well.
update_viewport_onto_grid(p, config) ==
    [p EXCEPT !.viewport = <<as_f32(config.width), as_f32(config.height)>>,
              !.width = config.width, !.height = config.height]

\* Mutant: width and height change places in the viewport.
update_viewport_swapped(p, config) ==
    [p EXCEPT !.viewport = <<as_f32(config.height), as_f32(config.width)>>]

update_viewport(p, config) ==
    [p EXCEPT !.viewport = <<as_f32(config.width), as_f32(config.height)>>]

\* Mutant: the strength is stored over dt as well.
set_inject_sources_strength_over_dt(p, strength) ==
    [p EXCEPT !.dt = strength, !.inject_sources_strength = strength]

set_inject_sources_strength(p, strength) ==
    [p EXCEPT !.inject_sources_strength = strength]

inject_sources_strength(p) == p.inject_sources_strength

(***************************************************************************)
(* camera.rs: the part of CameraController that key events reach.          *)
(***************************************************************************)
CameraController_new ==
    [amount_left |-> 0, amount_right |-> 0, amount_forward |-> 0,
     amount_backward |-> 0, amount_up |-> 0, amount_down |-> 0]

process_keyboard(c, key, key_state) ==
    LET amount == IF key_state = "Pressed" THEN 1 ELSE 0 IN
    CASE key \in {"KeyW", "ArrowUp"}           -> [c EXCEPT !.amount_forward = amount]
      [] key \in {"KeyS", "ArrowDown"}         -> [c EXCEPT !.amount_backward = amount]
      [] key \in {"KeyA", "ArrowLeft"}         -> [c EXCEPT !.amount_left = amount]
      [] key \in {"KeyD", "ArrowRight"}        -> [c EXCEPT !.amount_right = amount]
      [] key = "Space"                         -> [c EXCEPT !.amount_up = amount]
      [] key \in {"ShiftLeft", "ShiftRight"}   -> [c EXCEPT !.amount_down = amount]
      [] OTHER                                 -> c

(***************************************************************************)
(* state.rs.  The field log is a ghost: the device and window calls made   *)
(* by the handler that ran last, in program order.                         *)
(***************************************************************************)
Log(s, e) == [s EXCEPT !.log = Append(@, e)]

ClearLog(s) == [s EXCEPT !.log = <<>>]

State_new(size) ==
    LET config == [width |-> size[1], height |-> size[2]]
        box_min == <<0, 0, 0, 0>>
        extent == GRID_DIMENSION_LENGTH * GRID_VOXEL_SIDE_LENGTH
        box_max == <<extent, extent, extent, 0>>
        compute_params == ComputeParams_new(box_min, box_max, config)
    IN  [surface               |-> None,
         config                |-> config,
         is_surface_configured |-> FALSE,
         depth_texture         |-> config,
         projection            |-> config,
         camera_controller     |-> CameraController_new,
         compute_params        |-> compute_params,
         compute_params_buffer |-> compute_params,
         use_a_to_b            |-> TRUE,
         pending_input         |-> FALSE,
         log                   |-> <<>>]

\* Mutant: resize without the guard on the new size.
resize_unguarded(s, width, height) ==
    LET config == [width |-> width, height |-> height] IN
    Log([s EXCEPT !.config = config,
                  !.surface = Some(config),
                  !.projection = config,
                  !.depth_texture = config,
                  !.compute_params = update_viewport(@, config),
                  !.is_surface_configured = TRUE],
        [op |-> "configure", config |-> config])

resize(s, width, height) ==
    IF width > 0 /\ height > 0
    THEN LET config == [width |-> width, height |-> height] IN
         Log([s EXCEPT !.config = config,
                       !.surface = Some(config),
                       !.projection = config,
                       !.depth_texture = config,
                       !.compute_params = update_viewport(@, config),
                       !.is_surface_configured = TRUE],
             [op |-> "configure", config |-> config])
    ELSE s

\* self.queue.write_buffer(&self.compute_params_buffer, 0,
\*                         bytemuck::cast_slice(&[self.compute_params]))
write_compute_params_buffer(s) ==
    Log([s EXCEPT !.compute_params_buffer = s.compute_params],
        [op |-> "write_buffer", buffer |-> "compute_params_buffer",
         offset |-> 0, data |-> s.compute_params])

\* Mutant: update() changes dt on the host but does not push the block.
update_without_push(s, dt) ==
    Log([s EXCEPT !.compute_params = update_dt(@, dt)],
        [op |-> "write_buffer", buffer |-> "camera_buffer",
         offset |-> 0, data |-> "camera_uniform"])

update(s, dt) ==
    LET s1 == [s EXCEPT !.compute_params = update_dt(@, dt)]
        s2 == Log(s1, [op |-> "write_buffer", buffer |-> "camera_buffer",
                       offset |-> 0, data |-> "camera_uniform"])
    IN  write_compute_params_buffer(s2)

handle_key_exits(code, key_state) ==
    code = "Escape" /\ key_state = "Pressed"

\* Mutant: every Space press adds 1.0 to the strength.
handle_key_accumulating(s, code, key_state) ==
    IF code = "Escape" /\ key_state = "Pressed"
    THEN s
    ELSE IF code = "Space" /\ key_state = "Pressed"
    THEN write_compute_params_buffer(
             [s EXCEPT !.compute_params =
                 set_inject_sources_strength(@, inject_sources_strength(@) + 1)])
    ELSE [s EXCEPT !.camera_controller = process_keyboard(@, code, key_state)]

\* Mutant: a Space press is handed to the camera controller as well.
handle_key_forwarding(s, code, key_state) ==
    IF code = "Escape" /\ key_state = "Pressed"
    THEN s
    ELSE IF code = "Space" /\ key_state = "Pressed"
    THEN write_compute_params_buffer(
             [s EXCEPT !.compute_params = set_inject_sources_strength(@, 1),
                       !.camera_controller = process_keyboard(@, code, key_state)])
    ELSE [s EXCEPT !.camera_controller = process_keyboard(@, code, key_state)]

handle_key(s, code, key_state) ==
    IF code = "Escape" /\ key_state = "Pressed"
    THEN s
    ELSE IF code = "Space" /\ key_state = "Pressed"
    THEN write_compute_params_buffer(
             [s EXCEPT !.compute_params = set_inject_sources_strength(@, 1)])
    ELSE [s EXCEPT !.camera_controller = process_keyboard(@, code, key_state)]

\* Mutant: the workgroup count is rounded up past an exact quotient.
num_dispatches_rounded_up ==
    (GRID_DIMENSION_LENGTH + THREADS_PER_DIMENSION) \div THREADS_PER_DIMENSION

num_dispatches_per_dimension == GRID_DIMENSION_LENGTH \div THREADS_PER_DIMENSION

Workgroups ==
    <<num_dispatches_per_dimension, num_dispatches_per_dimension,
      num_dispatches_per_dimension>>

\* Mutant: the injection pass binds the pair of the other direction.
add_input_bind_group_swapped(use_a_to_b) ==
    IF use_a_to_b THEN add_input_bind_group_b ELSE add_input_bind_group_a

\* render, lines 643-667: add sources to density and forces if present.
add_input_bind_group(use_a_to_b) ==
    IF use_a_to_b THEN add_input_bind_group_a ELSE add_input_bind_group_b

add_input_pass(s) ==
    IF s.pending_input
    THEN [Log(s, [op |-> "dispatch", pipeline |-> "add_input_pipeline",
                  groups |-> <<add_input_bind_group(s.use_a_to_b)>>,
                  workgroups |-> Workgroups])
             EXCEPT !.pending_input = FALSE]
    ELSE s

\* render, lines 669-691: the advection dispatch, then the ping-pong flip.
\* Mutant: the flag selects the group of the other direction.
compute_bind_group_swapped(use_a_to_b) ==
    IF use_a_to_b THEN compute_bind_group_b_to_a ELSE compute_bind_group_a_to_b

\* Mutant: the advection dispatch always binds the a-to-b group.
compute_bind_group_fixed(use_a_to_b) == compute_bind_group_a_to_b

compute_bind_group(use_a_to_b) ==
    IF use_a_to_b THEN compute_bind_group_a_to_b ELSE compute_bind_group_b_to_a

\* Mutant: the direction is flipped twice in one step.
ping_pong_twice(s) == Log(Log(s, [op |-> "flip"]), [op |-> "flip"])

ping_pong(s) ==
    Log([s EXCEPT !.use_a_to_b = ~s.use_a_to_b], [op |-> "flip"])

\* Mutant: the direction is flipped before the dispatch is recorded.
simulate_pass_flip_first(s) ==
    LET f == [s EXCEPT !.use_a_to_b = ~s.use_a_to_b] IN
    Log(Log(f, [op |-> "dispatch", pipeline |-> "compute_pipeline",
                groups |-> <<compute_params_bind_group,
                             compute_bind_group(f.use_a_to_b)>>,
                workgroups |-> Workgroups]),
        [op |-> "flip"])

\* Mutant: the advection dispatch and the flip are left out.
simulate_pass_skipped(s) == s

simulate_pass(s) ==
    ping_pong(Log(s, [op |-> "dispatch", pipeline |-> "compute_pipeline",
                      groups |-> <<compute_params_bind_group,
                                   compute_bind_group(s.use_a_to_b)>>,
                      workgroups |-> Workgroups]))

\* Mutant: the injection strength is never reset.
reset_skipped(s) == s

\* Mutant: the strength is reset on the host but the block is not pushed.
reset_without_push(s) ==
    [s EXCEPT !.compute_params = set_inject_sources_strength(@, 0)]

\* render, lines 693-697
reset_inject_sources_strength(s) ==
    IF inject_sources_strength(s.compute_params) > 0
    THEN write_compute_params_buffer(
             [s EXCEPT !.compute_params = set_inject_sources_strength(@, 0)])
    ELSE s

\* render, lines 699-740
render_pass(s) ==
    Log(s, [op |-> "draw", pipeline |-> "render_pipeline",
            groups |-> <<camera_bind_group, compute_params_bind_group,
                         density_texture_bind_group>>])

\* render, lines 742-743.  Buffer writes queued before the submit reach the
\* device before the submitted passes run: params is the Parameter Block
\* those passes see.
submit_and_present(s) ==
    Log(Log(s, [op |-> "submit", params |-> s.compute_params_buffer]),
        [op |-> "present"])

encode_frame(s) ==
    submit_and_present(
        render_pass(reset_inject_sources_strength(simulate_pass(add_input_pass(s)))))

\* Mutant: render asks for the next redraw only once the surface texture
\* has been acquired.
render_requesting_late(s, acquire) ==
    IF ~s.is_surface_configured THEN s
    ELSE LET s2 == Log(s, [op |-> "get_current_texture", result |-> acquire]) IN
         IF acquire # "Ok" THEN s2
         ELSE encode_frame(Log(s2, [op |-> "request_redraw"]))

\* Mutant: render without the early return on an unconfigured surface.
render_unguarded(s, acquire) ==
    LET s2 == Log(Log(s, [op |-> "request_redraw"]),
                  [op |-> "get_current_texture", result |-> acquire]) IN
    IF acquire # "Ok" THEN s2 ELSE encode_frame(s2)

render(s, acquire) ==
    LET s1 == Log(s, [op |-> "request_redraw"]) IN
    IF ~s1.is_surface_configured THEN s1
    ELSE LET s2 == Log(s1, [op |-> "get_current_texture", result |-> acquire]) IN
         IF acquire # "Ok" THEN s2 ELSE encode_frame(s2)

render_result(s, acquire) ==
    IF ~s.is_surface_configured THEN "Ok" ELSE acquire

(***************************************************************************)
(* ping_pong.rs                                                            *)
(***************************************************************************)
Texture(id) == [view |-> [kind |-> "view", of |-> id],
                sampler |-> [kind |-> "sampler", of |-> id]]

PingPong_new(texture_a, texture_b) ==
    [texture_a |-> texture_a, texture_b |-> texture_b, a_to_b |-> TRUE]

\* Mutant: get_read_and_write() that ignores the direction.
get_read_and_write_fixed(p) == <<p.texture_a.view, p.texture_b.view>>

get_read_and_write(p) ==
    IF p.a_to_b
    THEN <<p.texture_a.view, p.texture_b.view>>
    ELSE <<p.texture_b.view, p.texture_a.view>>

get_read(p) ==
    IF p.a_to_b THEN p.texture_a.view ELSE p.texture_b.view

\* Mutant: swap() that only ever leaves the b-to-a direction set.
swap_stuck(p) == [p EXCEPT !.a_to_b = FALSE]

swap(p) == [p EXCEPT !.a_to_b = ~p.a_to_b]

get_sampler(p) == p.texture_a.sampler

(***************************************************************************)
(* compute_step.rs                                                         *)
(***************************************************************************)
\* Mutant: the sampler is always put at binding 2.
sampler_entries_at_two(textures_read_only, sampler) ==
    IF sampler # None
    THEN <<[binding |-> 2, resource |-> sampler[1]]>>
    ELSE <<>>

\* The entry dispatch pushes for the sampler, if one is given.
sampler_entries(textures_read_only, sampler) ==
    IF sampler # None
    THEN <<[binding |-> 2 + Len(textures_read_only), resource |-> sampler[1]]>>
    ELSE <<>>

\* ComputeStep::dispatch: the compute pass it records.  groups[i+1] is the
\* bind group set at index i.
dispatch(compute_params_group, texture_read, texture_write, textures_read_only, sampler, workgroups) ==
    LET entries ==
          <<[binding |-> 0, resource |-> texture_read],
            [binding |-> 1, resource |-> texture_write]>>
          \o [i \in 1..Len(textures_read_only) |->
                [binding |-> 2 + (i - 1), resource |-> textures_read_only[i]]]
          \o sampler_entries(textures_read_only, sampler)
    IN  [op |-> "dispatch", pipeline |-> "self.compute_pipeline",
         groups |-> <<compute_params_group,
                      [label |-> "self.label", entries |-> entries]>>,
         workgroups |-> workgroups]

NoDispatch == [args |-> <<>>, pass |-> <<>>]

(***************************************************************************)
(* app.rs: App::window_event, one action per window event.                 *)
(***************************************************************************)
Flips(log) == Cardinality({i \in DOMAIN log : log[i].op = "flip"})

\* Ghost: the time of the first window event, once there has been one.
FirstTime(first, now) == IF first = None THEN Some(now) ELSE first

\* Mutant: last_render_time is set anew at every window event.
get_or_insert_overwriting(opt, now) == Some(now)

\* let last_render_time = *self.last_render_time.get_or_insert_with(Instant::now)
get_or_insert_with(opt, now) == IF opt = None THEN Some(now) ELSE opt

CloseRequested ==
    /\ ~exiting
    /\ \E t0 \in clock..MaxTime :
          /\ clock' = t0
          /\ last_render_time' = get_or_insert_with(last_render_time, t0)
          /\ first_event_time' = FirstTime(first_event_time, t0)
    /\ exiting' = TRUE
    /\ state' = ClearLog(state)
    /\ UNCHANGED <<steps, since_frame, since_step, hazard, last_dt, content,
                   redraw_requested, frame_parity, dt_sum>>

Resized ==
    /\ ~exiting
    /\ \E t0 \in clock..MaxTime, size \in Sizes :
          /\ clock' = t0
          /\ last_render_time' = get_or_insert_with(last_render_time, t0)
          /\ first_event_time' = FirstTime(first_event_time, t0)
          /\ state' = resize(ClearLog(state), size[1], size[2])
    /\ UNCHANGED <<exiting, steps, since_frame, since_step, hazard, last_dt,
                   content, redraw_requested, frame_parity, dt_sum>>

\* Mutant: after a lost or outdated surface the frame is encoded anyway.
after_render_retrying(s, result, inner_size) ==
    IF result = "Ok" THEN s
    ELSE IF result \in {"Lost", "Outdated"}
    THEN encode_frame(resize(Log(s, [op |-> "inner_size", size |-> inner_size]),
                             inner_size[1], inner_size[2]))
    ELSE Log(s, [op |-> "log_error", error |-> result])

\* Mutant: every error is answered by a resize, none is logged.
after_render_absorbing(s, result, inner_size) ==
    IF result = "Ok" THEN s
    ELSE resize(Log(s, [op |-> "inner_size", size |-> inner_size]),
                inner_size[1], inner_size[2])

\* What the frame loop does with the result of render (app.rs:43-53).
after_render(s, result, inner_size) ==
    IF result = "Ok" THEN s
    ELSE IF result \in {"Lost", "Outdated"}
    THEN resize(Log(s, [op |-> "inner_size", size |-> inner_size]),
                inner_size[1], inner_size[2])
    ELSE Log(s, [op |-> "log_error", error |-> result])

\* Ghost bookkeeping of the passes of one command stream, in order: a pass
\* first reads the textures it binds for reading, then writes those it binds
\* for writing (a read_write binding does both).
PassReads(e) == UNION {GroupReads(e.groups[i]) : i \in DOMAIN e.groups}

PassWrites(e) == UNION {GroupWrites(e.groups[i]) : i \in DOMAIN e.groups}

RECURSIVE Track(_, _)
Track(log, h) ==
    IF log = <<>> THEN h
    ELSE LET e == Head(log) IN
         IF e.op \in {"dispatch", "draw"}
         THEN LET pending == h.unread \ PassReads(e) IN
              Track(Tail(log),
                    [unread |-> pending \cup PassWrites(e),
                     overwritten |-> h.overwritten \cup (PassWrites(e) \cap pending)])
         ELSE Track(Tail(log), h)

Submitted(log) == \E i \in DOMAIN log : log[i].op = "submit"

Indices(log, op) == {i \in DOMAIN log : log[i].op = op}

\* Ghost bookkeeping of which textures hold content: those written by the
\* dispatches the handler recorded are added.
Contents(log, c) ==
    c \cup UNION {PassWrites(log[i]) : i \in Indices(log, "dispatch")}

Frame(acquire) ==
    /\ ~exiting
    /\ steps < MaxSteps
    /\ \E t0 \in clock..MaxTime :
         \E now \in t0..MaxTime :
         \E inner_size \in IF acquire \in {"Lost", "Outdated"}
                           THEN Sizes ELSE {<<state.config.width, state.config.height>>} :
          LET last == get_or_insert_with(last_render_time, t0)[1]
              dt == now - last
              s1 == update(ClearLog(state), dt)
              s2 == render(s1, acquire)
              s3 == after_render(s2, render_result(s1, acquire), inner_size)
          IN  /\ clock' = now
              /\ last_render_time' = Some(now)
              /\ state' = s3
              /\ steps' = steps + Flips(s3.log)
              /\ since_frame' = FALSE
              /\ since_step' = (since_step /\ ~Submitted(s3.log))
              /\ hazard' = Track(s3.log, hazard)
              /\ last_dt' = Some(dt)
              /\ content' = Contents(s3.log, content)
              /\ redraw_requested' = (Indices(s3.log, "request_redraw") # {})
              /\ frame_parity' = 1 - frame_parity
              /\ first_event_time' = FirstTime(first_event_time, t0)
              /\ dt_sum' = dt_sum + dt
    /\ UNCHANGED exiting

RedrawRequested == \E acquire \in AcquireResults : Frame(acquire)

KeyboardInput ==
    /\ ~exiting
    /\ \E t0 \in clock..MaxTime, code \in KeyCodes, key_state \in ElementStates :
          /\ clock' = t0
          /\ last_render_time' = get_or_insert_with(last_render_time, t0)
          /\ state' = handle_key(ClearLog(state), code, key_state)
          /\ exiting' = handle_key_exits(code, key_state)
          /\ since_frame' = (since_frame \/ (code = "Space" /\ key_state = "Pressed"))
          /\ since_step' = (since_step \/ (code = "Space" /\ key_state = "Pressed"))
          /\ first_event_time' = FirstTime(first_event_time, t0)
    /\ UNCHANGED <<steps, hazard, last_dt, content, redraw_requested,
                   frame_parity, dt_sum>>

InitApp ==
    /\ \E size \in InitialSizes : state = State_new(size)
    /\ last_render_time = None
    /\ clock = 0
    /\ exiting = FALSE
    /\ steps = 0
    /\ since_frame = FALSE
    /\ since_step = FALSE
    /\ hazard = [unread |-> {}, overwritten |-> {}]
    /\ last_dt = None
    /\ content = StartupContent
    /\ redraw_requested = FALSE
    /\ frame_parity = 0
    /\ first_event_time = None
    /\ dt_sum = 0

Init ==
    /\ InitApp
    /\ pp = PingPong_new(Texture(1), Texture(2))
    /\ made = <<Texture(1), Texture(2)>>
    /\ swaps = 0
    /\ got = [call |-> "new", result |-> <<>>]
    /\ cs = NoDispatch
    /\ up = NoUpload

Next ==
    \/ CloseRequested /\ UNCHANGED <<ppVars, csVars, upVars>>
    \/ Resized /\ UNCHANGED <<ppVars, csVars, upVars>>
    \/ RedrawRequested /\ UNCHANGED <<ppVars, csVars, upVars>>
    \/ KeyboardInput /\ UNCHANGED <<ppVars, csVars, upVars>>

Spec == Init /\ [][Next]_vars

\* The frame loop with the scheduling the window system provides: a redraw
\* that has been requested is delivered, and, the surface texture being
\* acquirable, a frame that acquires it comes about.  These are
\* WF_vars(redraw_requested /\ RedrawRequested) and
\* WF_vars(redraw_requested /\ Frame("Ok")) with ENABLED written out: a
\* frame is enabled exactly when its guard FrameEnabled holds, and it always
\* changes frame_parity.
FrameEnabled == redraw_requested /\ ~exiting /\ steps < MaxSteps

RedrawDelivered ==
    \/ []<>(~FrameEnabled)
    \/ []<><<RedrawRequested /\ UNCHANGED <<ppVars, csVars, upVars>>>>_vars

SurfaceAcquirable ==
    \/ []<>(~FrameEnabled)
    \/ []<><<Frame("Ok") /\ UNCHANGED <<ppVars, csVars, upVars>>>>_vars

SpecLive == Init /\ [][Next]_vars /\ RedrawDelivered /\ SurfaceAcquirable

(***************************************************************************)
(* A PingPong on its own, built from any two textures and driven by any    *)
(* sequence of calls.                                                      *)
(***************************************************************************)
PPSwap ==
    /\ swaps < MaxSwaps
    /\ pp' = swap(pp)
    /\ swaps' = swaps + 1
    /\ got' = [call |-> "swap", result |-> <<>>]
    /\ UNCHANGED made

\* Mutant: get_read() that flips the direction after reading.
PPGetRead_swapping ==
    /\ got' = [call |-> "get_read", result |-> <<get_read(pp)>>]
    /\ pp' = swap(pp)
    /\ UNCHANGED <<swaps, made>>

PPGetRead ==
    /\ got' = [call |-> "get_read", result |-> <<get_read(pp)>>]
    /\ UNCHANGED <<pp, swaps, made>>

PPGetReadAndWrite ==
    /\ got' = [call |-> "get_read_and_write", result |-> get_read_and_write(pp)]
    /\ UNCHANGED <<pp, swaps, made>>

PPGetSampler ==
    /\ got' = [call |-> "get_sampler", result |-> <<get_sampler(pp)>>]
    /\ UNCHANGED <<pp, swaps, made>>

InitPingPong ==
    /\ InitApp
    /\ \E a \in 1..NumTextures, b \in 1..NumTextures :
          /\ a # b
          /\ pp = PingPong_new(Texture(a), Texture(b))
          /\ made = <<Texture(a), Texture(b)>>
    /\ swaps = 0
    /\ got = [call |-> "new", result |-> <<>>]
    /\ cs = NoDispatch
    /\ up = NoUpload

NextPingPong ==
    \/ PPSwap /\ UNCHANGED <<appVars, csVars, upVars>>
    \/ PPGetRead /\ UNCHANGED <<appVars, csVars, upVars>>
    \/ PPGetReadAndWrite /\ UNCHANGED <<appVars, csVars, upVars>>
    \/ PPGetSampler /\ UNCHANGED <<appVars, csVars, upVars>>

SpecPingPong == InitPingPong /\ [][NextPingPong]_vars

(***************************************************************************)
(* A ComputeStep on its own: one dispatch call with any arguments.         *)
(***************************************************************************)
Views == {TextureView(t) : t \in Textures}

Samplers == {SamplerOf(density_scalar_field_texture_a)}

SeqsUpTo(S, n) == UNION {[1..k -> S] : k \in 0..n}

WorkgroupCounts == {Workgroups, <<1, 2, 3>>}

DispatchArgs ==
    [texture_read : Views, texture_write : Views,
     textures_read_only : SeqsUpTo(Views, MaxAux),
     sampler : {None} \cup {Some(x) : x \in Samplers},
     workgroups : WorkgroupCounts]

CSDispatch ==
    /\ cs.pass = None
    /\ cs' = [cs EXCEPT !.pass =
                Some(dispatch(compute_params_bind_group,
                              cs.args.texture_read, cs.args.texture_write,
                              cs.args.textures_read_only, cs.args.sampler,
                              cs.args.workgroups))]

InitComputeStep ==
    /\ InitApp
    /\ pp = PingPong_new(Texture(1), Texture(2))
    /\ made = <<Texture(1), Texture(2)>>
    /\ swaps = 0
    /\ got = [call |-> "new", result |-> <<>>]
    /\ \E args \in DispatchArgs : cs = [args |-> args, pass |-> None]
    /\ up = NoUpload

NextComputeStep == CSDispatch /\ UNCHANGED <<appVars, ppVars, upVars>>

SpecComputeStep == InitComputeStep /\ [][NextComputeStep]_vars

(***************************************************************************)
(* write_velocity_3d_rgba16f_tornado on its own, over any grid of up to    *)
(* MaxDim voxels per axis.                                                 *)
(***************************************************************************)
TornadoStore ==
    /\ up.pc = "loop"
    /\ up' = loop_body(up)

TornadoUpload ==
    /\ up.pc = "upload"
    /\ up' = upload_data(up)

InitTornado ==
    /\ InitApp
    /\ pp = PingPong_new(Texture(1), Texture(2))
    /\ made = <<Texture(1), Texture(2)>>
    /\ swaps = 0
    /\ got = [call |-> "new", result |-> <<>>]
    /\ cs = NoDispatch
    /\ \E width \in 1..MaxDim, height \in 1..MaxDim, depth \in 1..MaxDim :
          up = Upload_new(width, height, depth)

NextTornado ==
    \/ TornadoStore /\ UNCHANGED <<appVars, ppVars, csVars>>
    \/ TornadoUpload /\ UNCHANGED <<appVars, ppVars, csVars>>

SpecTornado == InitTornado /\ [][NextTornado]_vars

(***************************************************************************)
(* Reading the ghost log of the handler that ran last.                     *)
(***************************************************************************)
Dispatches(log, pipeline) ==
    {i \in DOMAIN log : log[i].op = "dispatch" /\ log[i].pipeline = pipeline}

ParamWrites(log) ==
    {i \in DOMAIN log : log[i].op = "write_buffer"
                        /\ log[i].buffer = "compute_params_buffer"}

\* The last handler was RedrawRequested (render always asks for a redraw).
FrameRan(log) == Indices(log, "request_redraw") # {}

\* render got past both early returns.
Acquired(log) ==
    \E i \in Indices(log, "get_current_texture") : log[i].result = "Ok"

Simulated(log) == Dispatches(log, "compute_pipeline") # {}

Advection(log) == log[CHOOSE i \in Dispatches(log, "compute_pipeline") : TRUE]

Draw(log) == log[CHOOSE i \in Indices(log, "draw") : TRUE]

\* The injection strength in the Parameter Block the submitted passes see.
SeenStrength(log) ==
    log[CHOOSE i \in Indices(log, "submit") : TRUE].params.inject_sources_strength

\* The flip is made exactly once, after the advection dispatch is recorded.
FlippedOnceAfterDispatch(log) ==
    /\ Flips(log) = 1
    /\ Cardinality(Dispatches(log, "compute_pipeline")) = 1
    /\ \A i \in Indices(log, "flip") :
         \A j \in Dispatches(log, "compute_pipeline") : j < i

SideTextures(side) == {t \in Textures : t.side = side}

CurrentSide(use_a_to_b) == IF use_a_to_b THEN "a" ELSE "b"

OtherSide(use_a_to_b) == IF use_a_to_b THEN "b" ELSE "a"

ParamFields ==
    {"dt", "width", "height", "depth", "inject_sources_strength",
     "box_min", "box_max", "viewport"}

FullStructWrite(e) == e.offset = 0 /\ DOMAIN e.data = ParamFields

(***************************************************************************)
(* Claims                                                                  *)
(***************************************************************************)

\* C1: injection one-shot.  The passes of the first submitted frame after a
\* Space press see injection strength 1.0 in the Parameter Block, and the
\* passes of every submitted frame with no Space press since the previous
\* submitted frame see 0.0.
C1_InjectionOneShot ==
    [][Submitted(state'.log) =>
         SeenStrength(state'.log) = IF since_step THEN 1 ELSE 0]_vars

\* C2: after every completed frame the density texture bound for the
\* visualization pass is the one that frame's advection dispatch wrote:
\* B after an odd number of completed steps, A after an even number.
C2_CurrentDensityHandedOff ==
    Submitted(state.log) =>
        LET written == {t \in PassWrites(Advection(state.log)) : t.field = "density"}
            shown == {t \in PassReads(Draw(state.log)) : t.field = "density"}
        IN  /\ shown = written
            /\ shown = {IF steps % 2 = 1 THEN density_scalar_field_texture_b
                                         ELSE density_scalar_field_texture_a}

\* C3: once Space has been pressed since the last frame, the injection
\* strength is 1.0 and pending_input is true until the next frame renders.
C3_InjectionRequestSetsBothFlags ==
    since_frame =>
        /\ inject_sources_strength(state.compute_params) = 1
        /\ state.pending_input

C5_ReadAndWritePair ==
    LET rw == get_read_and_write(pp)
        a == made[1].view
        b == made[2].view
    IN  /\ rw[1] = get_read(pp)
        /\ rw[2] = IF rw[1] = a THEN b ELSE a
        /\ rw[1] # rw[2]
        /\ rw = IF pp.a_to_b THEN <<a, b>> ELSE <<b, a>>
        /\ got.call = "get_read_and_write" => got.result = rw

C5_Witness ==
    /\ got.call = "get_read_and_write"
    /\ ~pp.a_to_b
    /\ got.result = <<made[2].view, made[1].view>>

\* C6: in every frame whose render reaches the simulate step, the advection
\* dispatch reads the current texture of each field and writes the opposite
\* one, and the direction is flipped exactly once, after the dispatch is
\* recorded.
C6_AdvectionStepProtocol ==
    [][Simulated(state'.log) =>
         /\ PassReads(Advection(state'.log))
                = SideTextures(CurrentSide(state.use_a_to_b))
         /\ PassWrites(Advection(state'.log))
                = SideTextures(OtherSide(state.use_a_to_b))
         /\ FlippedOnceAfterDispatch(state'.log)
         /\ steps' = steps + 1
         /\ state'.use_a_to_b = ~state.use_a_to_b]_vars

C6_Witness ==
    /\ Simulated(state.log)
    /\ steps = 2
    /\ PassReads(Advection(state.log)) = SideTextures("b")
    /\ state.use_a_to_b

\* C7 as claimed: every RedrawRequested runs the advection dispatch and
\* swaps the direction afterward.
C7_EveryFrameAdvances ==
    FrameRan(state.log) =>
        Simulated(state.log) /\ FlippedOnceAfterDispatch(state.log)

\* C7 amended: every RedrawRequested whose render finds the surface
\* configured and acquires the surface texture runs the advection dispatch
\* and swaps the direction afterward.
C7_AcquiredFrameAdvances ==
    [][(/\ FrameRan(state'.log)
        /\ state.is_surface_configured
        /\ Acquired(state'.log)) =>
         /\ Simulated(state'.log)
         /\ FlippedOnceAfterDispatch(state'.log)
         /\ state'.use_a_to_b = ~state.use_a_to_b]_vars

C7_Witness ==
    /\ FrameRan(state.log)
    /\ Acquired(state.log)
    /\ Simulated(state.log)
    /\ steps >= 1

\* C8 as claimed: whenever no Space press has happened since the previous
\* frame, the host-side injection strength is 0.0.
C8_StrengthZeroOutsideInjectionFrame ==
    ~since_frame => inject_sources_strength(state.compute_params) = 0

\* C8 amended: whenever no Space press has happened since the last frame
\* whose render reached the simulate step (or since startup), the host-side
\* injection strength is 0.0: a strength of 1.0 does not outlast the first
\* frame that is simulated.
C8_StrengthZeroAfterSimulatedFrame ==
    ~since_step => inject_sources_strength(state.compute_params) = 0

C8_Witness ==
    /\ ~since_step
    /\ Submitted(state.log)
    /\ \E i \in ParamWrites(state.log) :
          /\ i > CHOOSE j \in Indices(state.log, "flip") : TRUE
          /\ state.log[i].data.inject_sources_strength = 0
    /\ inject_sources_strength(state.compute_params) = 0

\* C9: no field texture is written by a second dispatch before it has been
\* read, within a frame and from one frame to the next, and the injection
\* dispatch and the advection dispatch of one direction never have a write
\* target in common.
C9_SingleWriter ==
    /\ hazard.overwritten = {}
    /\ PassWrites([groups |-> <<add_input_bind_group(state.use_a_to_b)>>])
         \cap PassWrites([groups |-> <<compute_bind_group(state.use_a_to_b)>>]) = {}
    /\ Simulated(state.log) =>
         \A i \in Dispatches(state.log, "add_input_pipeline") :
            PassWrites(state.log[i]) \cap PassWrites(Advection(state.log)) = {}

C9_Witness ==
    /\ Simulated(state.log)
    /\ steps = 3
    /\ hazard.unread # {}
    /\ hazard.overwritten = {}

\* C10 as claimed: in every frame the Parameter Block's buffer is
\* overwritten exactly once, by a full-struct write.
C10_PushedOncePerFrame ==
    FrameRan(state.log) =>
        /\ Cardinality(ParamWrites(state.log)) = 1
        /\ \A i \in ParamWrites(state.log) : FullStructWrite(state.log[i])

\* C10 amended: in every frame the Parameter Block's buffer is overwritten
\* once by update and, when render reaches the simulate step with a non-zero
\* injection strength, exactly once more by the reset; every overwrite is a
\* full-struct write.
C10_PushedOnceOrTwicePerFrame ==
    [][FrameRan(state'.log) =>
         /\ Cardinality(ParamWrites(state'.log))
              = IF Simulated(state'.log)
                   /\ inject_sources_strength(state.compute_params) > 0
                THEN 2 ELSE 1
         /\ \A i \in ParamWrites(state'.log) : FullStructWrite(state'.log[i])]_vars

C10_Witness ==
    /\ FrameRan(state.log)
    /\ Cardinality(ParamWrites(state.log)) = 2
    /\ \A i \in ParamWrites(state.log) : FullStructWrite(state.log[i])

\* A dispatch whose workgroups cover the grid exactly once per axis.
CoversGrid(e) ==
    /\ e.workgroups = <<16, 16, 16>>
    /\ \A k \in DOMAIN e.workgroups :
         e.workgroups[k] * THREADS_PER_DIMENSION = GRID_DIMENSION_LENGTH

\* C11: with N = 64 and 4 threads per axis, every dispatch render records,
\* the advection dispatch of every step and the injection dispatch render
\* records when pending_input is set, uses workgroup counts (16, 16, 16), and
\* count * 4 = N on each axis.
C11_GridCoverage ==
    /\ GRID_DIMENSION_LENGTH = 64
    /\ THREADS_PER_DIMENSION = 4
    /\ \A i \in Indices(state.log, "dispatch") : CoversGrid(state.log[i])
    /\ LET s == add_input_pass([state EXCEPT !.pending_input = TRUE, !.log = <<>>])
       IN  /\ Len(s.log) = 1
           /\ \A i \in Indices(s.log, "dispatch") : CoversGrid(s.log[i])

C11_Witness ==
    /\ Simulated(state.log)
    /\ steps = 2
    /\ CoversGrid(Advection(state.log))

\* render failed to acquire the surface texture with Lost or Outdated.
TransientError(log) ==
    \E i \in Indices(log, "get_current_texture") :
        log[i].result \in {"Lost", "Outdated"}

OtherError(log) ==
    \E i \in Indices(log, "get_current_texture") :
        log[i].result \notin {"Ok", "Lost", "Outdated"}

\* C13: when render returns an error other than Lost or Outdated, the frame
\* loop logs that error, does not reconfigure the surface, and render is not
\* run a second time in that frame: no dispatch is recorded and the
\* direction is left alone.
C13_OtherErrorIsTerminal ==
    [][OtherError(state'.log) =>
         /\ \A i \in Indices(state'.log, "get_current_texture") :
              \E j \in Indices(state'.log, "log_error") :
                 j > i /\ state'.log[j].error = state'.log[i].result
         /\ Indices(state'.log, "configure") = {}
         /\ Indices(state'.log, "inner_size") = {}
         /\ state'.surface = state.surface
         /\ Cardinality(Indices(state'.log, "request_redraw")) = 1
         /\ Cardinality(Indices(state'.log, "get_current_texture")) = 1
         /\ Indices(state'.log, "dispatch") = {}
         /\ ~Submitted(state'.log)
         /\ steps' = steps
         /\ state'.use_a_to_b = state.use_a_to_b]_vars

C13_Witness ==
    /\ OtherError(state.log)
    /\ \E j \in Indices(state.log, "log_error") : state.log[j].error = "Timeout"
    /\ steps = 1

\* The configuration the last handler configured the surface with, if it
\* ended by doing so.
ResizedTo(log) ==
    IF log # <<>> /\ log[Len(log)].op = "configure"
    THEN Some(log[Len(log)].config) ELSE None

\* C14: a resize(w, h) with w > 0 and h > 0 sets the Parameter Block's
\* viewport to (w, h) and leaves its grid extents, the direction flag,
\* pending_input, the injection strength and the textures' read/write
\* bookkeeping unchanged.
C14_ResizeChangesOnlyViewport ==
    [][ResizedTo(state'.log) # None =>
         LET config == ResizedTo(state'.log)[1] IN
         /\ config.width > 0 /\ config.height > 0
         /\ state'.compute_params.viewport = <<config.width, config.height>>
         /\ state'.compute_params.width = state.compute_params.width
         /\ state'.compute_params.height = state.compute_params.height
         /\ state'.compute_params.depth = state.compute_params.depth
         /\ state'.compute_params.box_min = state.compute_params.box_min
         /\ state'.compute_params.box_max = state.compute_params.box_max
         /\ inject_sources_strength(state'.compute_params)
                = inject_sources_strength(state.compute_params)
         /\ state'.use_a_to_b = state.use_a_to_b
         /\ state'.pending_input = state.pending_input
         /\ steps' = steps
         /\ hazard' = hazard]_vars

C14_Witness ==
    /\ state.log = <<[op |-> "configure", config |-> [width |-> 1024, height |-> 768]]>>
    /\ state.compute_params.viewport = <<1024, 768>>
    /\ state.compute_params.width = 64
    /\ inject_sources_strength(state.compute_params) = 1
    /\ steps = 1

\* C15: for any dispatch(read, write, aux[0..k), sampler?, workgroups) the
\* binding set built has read at binding 0, write at binding 1, aux[i] at
\* binding 2+i in caller order and the sampler, if given, at binding 2+k;
\* the binding indices are exactly 0..n-1 without duplicates; the
\* parameter-block bind group is set at group 0, this binding set at group 1.
C15_DispatchBindingLayout ==
    cs.pass # None =>
        LET a == cs.args
            e == cs.pass[1]
            set == e.groups[2].entries
            k == Len(a.textures_read_only)
            n == IF a.sampler # None THEN 2 + k + 1 ELSE 2 + k
            At(b) == {set[j].resource : j \in {j \in DOMAIN set : set[j].binding = b}}
        IN  /\ Len(set) = n
            /\ At(0) = {a.texture_read}
            /\ At(1) = {a.texture_write}
            /\ \A i \in 0..(k - 1) : At(2 + i) = {a.textures_read_only[i + 1]}
            /\ a.sampler # None => At(2 + k) = {a.sampler[1]}
            /\ {set[j].binding : j \in DOMAIN set} = 0..(n - 1)
            /\ \A i, j \in DOMAIN set : set[i].binding = set[j].binding => i = j
            /\ Len(e.groups) = 2
            /\ e.groups[1] = compute_params_bind_group
            /\ e.workgroups = a.workgroups

C15_Witness ==
    /\ cs.pass # None
    /\ Len(cs.args.textures_read_only) = 2
    /\ cs.args.textures_read_only[1] # cs.args.textures_read_only[2]
    /\ cs.args.sampler # None
    /\ \E j \in DOMAIN cs.pass[1].groups[2].entries :
         cs.pass[1].groups[2].entries[j]
            = [binding |-> 4, resource |-> cs.args.sampler[1]]

\* The calls on a PingPong that take &self.
Accessors == {"get_read", "get_read_and_write", "get_sampler"}

\* C16: get_read(), get_read_and_write() and get_sampler() leave the
\* PingPong as it was, so what get_read() returns stays the same until the
\* next swap(); a get_read() call returns the view the direction selects.
C16_AccessorsArePure ==
    [][got'.call \in Accessors =>
         /\ pp' = pp
         /\ swaps' = swaps
         /\ get_read(pp') = get_read(pp)
         /\ got'.call = "get_read" => got'.result = <<get_read(pp)>>
         /\ (got.call = "get_read" /\ got'.call = "get_read") =>
               got'.result = got.result]_vars

C16_Witness ==
    /\ got.call = "get_read"
    /\ swaps = 1
    /\ got.result = <<made[2].view>>
    /\ get_read(pp) = made[2].view

\* C17: after update_dt(d) the Parameter Block's dt is d converted to
\* seconds (d itself for the whole seconds modelled) in every state up to
\* the next update_dt, whatever update_viewport and
\* set_inject_sources_strength calls come in between.
C17_DtRoundTrip ==
    IF last_dt = None
    THEN state.compute_params.dt = 0
    ELSE /\ state.compute_params.dt = as_secs_f32(last_dt[1])
         /\ state.compute_params.dt = last_dt[1]

C17_Witness ==
    /\ last_dt = Some(1)
    /\ state.compute_params.dt = 1
    /\ state.log = <<[op |-> "configure", config |-> [width |-> 1024, height |-> 768]]>>
    /\ state.compute_params.viewport = <<1024, 768>>
    /\ inject_sources_strength(state.compute_params) = 1

\* What a render from s0 that ended in s recorded for the injection.
InjectionProtocol(s0, s) ==
    LET injections == Dispatches(s.log, "add_input_pipeline") IN
    IF s0.pending_input /\ Acquired(s.log)
    THEN /\ Cardinality(injections) = 1
         /\ Simulated(s.log)
         /\ \A i \in injections :
              /\ \A j \in Dispatches(s.log, "compute_pipeline") : i < j
              /\ \A j \in Indices(s.log, "submit") : i < j
              /\ PassWrites(s.log[i]) = PassReads(Advection(s.log))
              /\ PassReads(s.log[i]) = PassReads(Advection(s.log))
              /\ PassWrites(s.log[i]) = SideTextures(CurrentSide(s0.use_a_to_b))
         /\ ~s.pending_input
    ELSE /\ injections = {}
         /\ s.pending_input = s0.pending_input

\* The frame render would record from s were pending_input set.
PendingFrame(s) == render([ClearLog(s) EXCEPT !.pending_input = TRUE], "Ok")

RenderPushes(log) ==
    {i \in ParamWrites(log) : \E j \in Indices(log, "request_redraw") : j < i}

\* C19: when a render call reaches the simulate step with host-side
\* injection strength > 0, on return the host-side strength is 0.0 and the
\* whole Parameter Block, carrying strength 0.0, has been pushed to the
\* device buffer after the step; when the strength is already 0 render
\* makes no push.
C19_ResetAfterStep ==
    [][Simulated(state'.log) =>
         LET pushes == RenderPushes(state'.log) IN
         IF inject_sources_strength(state.compute_params) > 0
         THEN /\ inject_sources_strength(state'.compute_params) = 0
              /\ inject_sources_strength(state'.compute_params_buffer) = 0
              /\ Cardinality(pushes) = 1
              /\ \A i \in pushes :
                   /\ FullStructWrite(state'.log[i])
                   /\ inject_sources_strength(state'.log[i].data) = 0
                   /\ \A j \in Indices(state'.log, "flip") : j < i
         ELSE /\ pushes = {}
              /\ inject_sources_strength(state'.compute_params) = 0]_vars

C19_Witness ==
    /\ Simulated(state.log)
    /\ RenderPushes(state.log) # {}
    /\ inject_sources_strength(state.compute_params) = 0
    /\ inject_sources_strength(state.compute_params_buffer) = 0
    /\ steps = 2

\* A Parameter Block whose injection strength is within [0, 1].
InRange(p) ==
    /\ inject_sources_strength(p) \in {0, 1}
    /\ 0 <= inject_sources_strength(p) /\ inject_sources_strength(p) <= 1

\* C20: in every reachable state the injection strength of the Parameter
\* Block, on the host and in the device buffer, is 0.0 or 1.0, hence within
\* [0, 1]; so is the strength of every block pushed.
C20_StrengthInRange ==
    /\ InRange(state.compute_params)
    /\ InRange(state.compute_params_buffer)
    /\ \A i \in ParamWrites(state.log) : InRange(state.log[i].data)

C20_Witness ==
    /\ inject_sources_strength(state.compute_params) = 1
    /\ inject_sources_strength(state.compute_params_buffer) = 1
    /\ state.compute_params.viewport = <<1024, 768>>
    /\ steps = 2

\* C21: every simulation texture is created N x N x N with
\* N = GRID_DIMENSION_LENGTH, and in every reachable state the Parameter
\* Block's width, height and depth, on the host, in the device buffer and
\* in every block pushed, equal N.
C21_GridShapeFixed ==
    LET N == GRID_DIMENSION_LENGTH
        IsGrid(p) == p.width = N /\ p.height = N /\ p.depth = N
    IN  /\ \A t \in Textures :
             /\ Created(t).size = [width |-> N, height |-> N,
                                   depth_or_array_layers |-> N]
             /\ Created(t).dimension = "D3"
        /\ \A t1, t2 \in Textures : Created(t1).size = Created(t2).size
        /\ IsGrid(state.compute_params)
        /\ IsGrid(state.compute_params_buffer)
        /\ \A i \in ParamWrites(state.log) : IsGrid(state.log[i].data)

C21_Witness ==
    /\ steps = 2
    /\ state.compute_params.viewport = <<1024, 768>>
    /\ inject_sources_strength(state.compute_params) = 1
    /\ state.compute_params.dt = 1
    /\ state.compute_params.width = 64
    /\ state.compute_params_buffer.depth = 64

\* The grid cells of a width x height x depth grid.
Cells(width, height, depth) ==
    (0..(width - 1)) \X (0..(height - 1)) \X (0..(depth - 1))

\* C22: in write_velocity_3d_rgba16f_tornado the linear index
\* i = x + W*(y + H*z) maps the cells of the grid one-to-one onto
\* 0..W*H*D-1; no store falls outside data and no byte is stored twice;
\* when the loops end every byte of every 8-byte voxel slot has been stored
\* exactly once, slot i by the cell of index i; and the upload's layout
\* (bytes_per_row = W*8, rows_per_image = H, extent W x H x D) describes
\* exactly the W*H*D*8 bytes of data.  The same sizes agree for the
\* program's grid, W = H = D = GRID_DIMENSION_LENGTH.
C22_UploadCoversEveryCell ==
    up.pc # "idle" =>
        LET W == up.width
            H == up.height
            D == up.depth
            N == GRID_DIMENSION_LENGTH
        IN  /\ up.pc # "panic"
            /\ Len(up.data) = W * H * D * 8
            /\ {linear_index(c[1], c[2], c[3], W, H) : c \in Cells(W, H, D)}
                  = 0..(W * H * D - 1)
            /\ Cardinality(Cells(W, H, D)) = W * H * D
            /\ \A k \in DOMAIN up.data : Len(up.data[k]) <= 1
            /\ up.pc \in {"upload", "done"} =>
                  \A c \in Cells(W, H, D) :
                     LET base == linear_index(c[1], c[2], c[3], W, H) * 8 IN
                     \A b \in 1..8 :
                        up.data[base + b]
                           = <<<<c[1], c[2], c[3], Channels[((b - 1) \div 2) + 1]>>>>
            /\ up.pc = "done" =>
                  /\ up.upload # None
                  /\ up.upload[1].bytes_per_row = W * 8
                  /\ up.upload[1].rows_per_image = H
                  /\ up.upload[1].extent
                        = [width |-> W, height |-> H, depth_or_array_layers |-> D]
                  /\ up.upload[1].offset = 0
                  /\ up.upload[1].bytes_per_row * up.upload[1].rows_per_image * D
                        = up.upload[1].size
                  /\ up.upload[1].size = W * H * D * 8
            /\ linear_index(N - 1, N - 1, N - 1, N, N) = voxel_count(N, N, N) - 1
            /\ (N * 8) * N * N = voxel_count(N, N, N) * bytes_per_voxel

C22_Witness ==
    /\ up.pc = "done"
    /\ up.width = 3 /\ up.height = 2 /\ up.depth = 3
    /\ up.data[Len(up.data)] = <<<<2, 1, 2, "a">>>>
    /\ up.data[(1 + 3 * (1 + 2 * 1)) * 8 + 1] = <<<<1, 1, 1, "r">>>>
    /\ up.upload[1].size = 144

\* The Texture struct of a simulation texture: its view and its sampler.
TextureObject(t) == [view |-> TextureView(t), sampler |-> SamplerOf(t)]

\* A PingPong after n calls of swap().
RECURSIVE SwapN(_, _)
SwapN(p, n) == IF n = 0 THEN p ELSE SwapN(swap(p), n - 1)

\* The PingPong over the A and B textures of a field, swapped once per step.
PingPongOf(field, n) ==
    SwapN(PingPong_new(TextureObject([field |-> field, side |-> "a"]),
                       TextureObject([field |-> field, side |-> "b"])), n)

\* C23: in every frame that records the advection dispatch, the (read,
\* write) pair the dispatch binds for the velocity field and the pair it
\* binds for the density field equal get_read_and_write() of a PingPong
\* over that field's A and B textures that has been swapped once per
\* completed step; the flip of the frame keeps the two in step.
C23_InlinePingPongRefinesPingPong ==
    [][Simulated(state'.log) =>
         LET e == Advection(state'.log).groups[2].entries
             next == compute_bind_group(state'.use_a_to_b).entries
         IN  /\ <<e[1], e[2]>> = get_read_and_write(PingPongOf("velocity", steps))
             /\ <<e[3], e[4]>> = get_read_and_write(PingPongOf("density", steps))
             /\ steps' = steps + 1
             /\ <<next[1], next[2]>> = get_read_and_write(PingPongOf("velocity", steps'))
             /\ <<next[3], next[4]>> = get_read_and_write(PingPongOf("density", steps'))
      ]_vars

C23_Witness ==
    /\ Simulated(state.log)
    /\ steps = 2
    /\ Advection(state.log).groups[2].entries[1]
          = get_read(PingPongOf("velocity", 1))
    /\ Advection(state.log).groups[2].entries[3]
          = TextureView(density_scalar_field_texture_b)

\* C24: in every reachable state the bind group the advection dispatch
\* would use reads the velocity and the density texture of the same side
\* and writes those of the other side, the bind group the injection
\* dispatch would use reads and writes both textures of the current side,
\* and every dispatch recorded reads both fields on one side.
C24_DirectionsNeverDiverge ==
    LET advection == compute_bind_group(state.use_a_to_b)
        injection == add_input_bind_group(state.use_a_to_b)
    IN  /\ GroupReads(advection) = SideTextures(CurrentSide(state.use_a_to_b))
        /\ GroupWrites(advection) = SideTextures(OtherSide(state.use_a_to_b))
        /\ GroupReads(injection) = SideTextures(CurrentSide(state.use_a_to_b))
        /\ GroupWrites(injection) = SideTextures(CurrentSide(state.use_a_to_b))
        /\ \A i \in Indices(state.log, "dispatch") :
             \E side \in {"a", "b"} :
                /\ PassReads(state.log[i]) = SideTextures(side)
                /\ {t.field : t \in PassReads(state.log[i])} = {"velocity", "density"}

C24_Witness ==
    /\ Simulated(state.log)
    /\ steps = 2
    /\ state.use_a_to_b
    /\ PassReads(Advection(state.log)) = SideTextures("b")
    /\ PassWrites(Advection(state.log)) = SideTextures("a")

\* C25: the textures given initial content at startup are velocity A and
\* density A, they are exactly what the first advection dispatch reads, and
\* every dispatch reads only textures that hold content: uploaded at
\* startup or written by an earlier dispatch.
C25_SeededBuffersReadFirst ==
    [][FrameRan(state'.log) =>
         /\ StartupContent = SideTextures("a")
         /\ (steps = 0 /\ Simulated(state'.log)) =>
               PassReads(Advection(state'.log)) = StartupContent
         /\ \A i \in Indices(state'.log, "dispatch") :
              PassReads(state'.log[i])
                 \subseteq Contents(SubSeq(state'.log, 1, i - 1), content)
      ]_vars

C25_Witness ==
    /\ Simulated(state.log)
    /\ steps = 1
    /\ PassReads(Advection(state.log)) = StartupContent
    /\ content = Textures

\* C26: a render on a surface that has not been configured records no
\* dispatch, leaves the direction flag, pending_input and the injection
\* strength as they were, does not try to acquire the surface texture and
\* returns Ok: the frame loop neither resizes nor logs an error.
C26_UnconfiguredRenderIsNoOp ==
    [][(FrameRan(state'.log) /\ ~state.is_surface_configured) =>
         /\ Indices(state'.log, "dispatch") = {}
         /\ Indices(state'.log, "flip") = {}
         /\ Indices(state'.log, "get_current_texture") = {}
         /\ Indices(state'.log, "log_error") = {}
         /\ Indices(state'.log, "inner_size") = {}
         /\ ~Submitted(state'.log)
         /\ state'.use_a_to_b = state.use_a_to_b
         /\ state'.pending_input = state.pending_input
         /\ inject_sources_strength(state'.compute_params)
               = inject_sources_strength(state.compute_params)
         /\ ~state'.is_surface_configured
         /\ steps' = steps
         /\ \A acquire \in AcquireResults :
              LET s0 == [ClearLog(state) EXCEPT !.pending_input = TRUE]
                  s == render(s0, acquire)
              IN  /\ s.pending_input
                  /\ s.log = <<[op |-> "request_redraw"]>>
                  /\ render_result(s0, acquire) = "Ok"
      ]_vars

C26_Witness ==
    /\ FrameRan(state.log)
    /\ ~state.is_surface_configured
    /\ state.surface = None
    /\ inject_sources_strength(state.compute_params) = 1
    /\ state.use_a_to_b

\* A size with a zero width or a zero height.
Degenerate(size) == size[1] = 0 \/ size[2] = 0

\* C27: resize(w, h) with w = 0 or h = 0 returns the State as it was, from
\* every reachable state; and a frame whose loop calls resize with such an
\* inner size leaves the surface configuration, the viewport,
\* is_surface_configured, the direction flag, pending_input and the step
\* count unchanged and configures nothing.
C27_DegenerateResizeIgnored ==
    [][/\ \A size \in Sizes :
            Degenerate(size) => resize(state, size[1], size[2]) = state
       /\ \A i \in Indices(state'.log, "inner_size") :
            Degenerate(state'.log[i].size) =>
               /\ Indices(state'.log, "configure") = {}
               /\ state'.config = state.config
               /\ state'.surface = state.surface
               /\ state'.depth_texture = state.depth_texture
               /\ state'.projection = state.projection
               /\ state'.compute_params.viewport = state.compute_params.viewport
               /\ state'.is_surface_configured = state.is_surface_configured
               /\ state'.use_a_to_b = state.use_a_to_b
               /\ state'.pending_input = state.pending_input
               /\ steps' = steps
      ]_vars

C27_Witness ==
    /\ \E i \in Indices(state.log, "inner_size") : state.log[i].size = <<0, 600>>
    /\ state.config = [width |-> 1024, height |-> 768]
    /\ state.surface = Some(state.config)
    /\ state.is_surface_configured
    /\ steps = 1

\* C28: every RedrawRequested calls render, and render requests another
\* redraw first thing, whatever its outcome, so a redraw request is pending
\* after every frame; once a RedrawRequested has been handled (last_dt is
\* set), another one follows for as long as the application has not exited
\* and the model's step bound is not reached; and once the surface is
\* configured, the surface texture being acquirable, a further advection
\* step runs.
C28_FrameLoopNeverStalls ==
    /\ [][frame_parity' # frame_parity =>
            /\ Cardinality(Indices(state'.log, "request_redraw")) = 1
            /\ \A i \in Indices(state'.log, "request_redraw") :
                 \A j \in DOMAIN state'.log :
                    state'.log[j].op \in {"get_current_texture", "dispatch", "submit",
                                          "inner_size", "log_error", "configure"}
                       => i < j
            /\ redraw_requested']_vars
    /\ \A b \in {0, 1} :
          (last_dt # None /\ frame_parity = b /\ ~exiting /\ steps < MaxSteps)
             ~> (frame_parity # b \/ exiting)
    /\ \A k \in 0..(MaxSteps - 1) :
          (last_dt # None /\ state.is_surface_configured /\ steps = k /\ ~exiting)
             ~> (steps > k \/ exiting)

C28_Witness ==
    /\ redraw_requested
    /\ frame_parity = 0
    /\ FrameRan(state.log)
    /\ OtherError(state.log)
    /\ steps = 2
    /\ ~exiting

\* C29: the dt passed to update on a RedrawRequested is the time of that
\* event minus last_render_time, which is the time of the previous
\* RedrawRequested, or of the first window event before any redraw; it is
\* never negative; last_render_time changes on RedrawRequested only, apart
\* from being set by the first window event; and the dts passed so far sum
\* to the time from the first window event to the latest redraw, frames
\* whose render failed included.
C29_ElapsedTimeAccounting ==
    [][/\ frame_parity' # frame_parity =>
            LET previous == IF last_render_time # None
                            THEN last_render_time[1] ELSE first_event_time'[1]
            IN  /\ last_dt' = Some(clock' - previous)
                /\ last_dt'[1] >= 0
                /\ state'.compute_params.dt = as_secs_f32(clock' - previous)
                /\ last_render_time' = Some(clock')
                /\ dt_sum' = dt_sum + last_dt'[1]
       /\ frame_parity' = frame_parity =>
            \/ last_render_time' = last_render_time
            \/ /\ last_render_time = None
               /\ last_render_time' = first_event_time'
               /\ first_event_time = None
       /\ first_event_time' # None
       /\ last_render_time' # None
       /\ dt_sum' = last_render_time'[1] - first_event_time'[1]
      ]_vars

C29_Witness ==
    /\ FrameRan(state.log)
    /\ OtherError(state.log)
    /\ first_event_time = Some(0)
    /\ last_render_time = Some(2)
    /\ last_dt = Some(1)
    /\ dt_sum = 2
    /\ steps = 1

\* The handler that ran last handled a Space press: it pushed the Parameter
\* Block and did nothing else.
SpacePressed(log) ==
    /\ Len(log) = 1
    /\ ParamWrites(log) = {1}

\* C30: a Space press handled by handle_key leaves the camera controller as
\* it was, a Space release is handed to it, and amount_up is zero in every
\* reachable state.
C30_SpaceConsumedByInjection ==
    [][/\ state.camera_controller.amount_up = 0
       /\ state'.camera_controller.amount_up = 0
       /\ SpacePressed(state'.log) =>
             state'.camera_controller = state.camera_controller
       /\ handle_key(state, "Space", "Pressed").camera_controller
             = state.camera_controller
       /\ handle_key(state, "Space", "Released").camera_controller
             = process_keyboard(state.camera_controller, "Space", "Released")
      ]_vars

C30_Witness ==
    /\ SpacePressed(state.log)
    /\ inject_sources_strength(state.compute_params) = 1
    /\ state.camera_controller.amount_forward = 1
    /\ state.camera_controller.amount_up = 0
    /\ steps = 1

====
